---------------------------- MODULE Spec2Model ----------------------------
(***************************************************************************)
(* LingStorage Go SDK (package lingstorage): the client configuration,    *)
(* the retry loop shared by every operation, and the translation of the   *)
(* final response into a result or an error; uploads from the source to    *)
(* the multipart request; BatchUpload.                                     *)
(*                                                                         *)
(* Durations are in seconds.  One caller goroutine drives the client step  *)
(* by step; a call made by a second goroutine appears through the pool of  *)
(* idle connections it shares.  The HTTP server and the network are the    *)
(* environment.                                                            *)
(***************************************************************************)
EXTENDS Integers, Sequences, FiniteSets, TLC

(***************************************************************************)
(* Bounds of the model.                                                    *)
(***************************************************************************)
MaxRetry == 2          \* largest RetryCount a caller writes into a Config
MaxNew == 2            \* NewClient calls on the same Config value
MaxSize == 2           \* largest source of an upload, in bytes
MaxFiles == 2          \* longest Files list of a BatchUpload

(***************************************************************************)
(* Program constants.                                                      *)
(***************************************************************************)
DefaultTimeout == 30                          \* 30 * time.Second
DefaultRetryCount == 3
DEFAULT_USER_AGENT == "LingStorage-SDK/1.0.0"
StatusOK == 200                               \* http.StatusOK
ServerErrorFloor == 500                       \* resp.StatusCode < 500 ends the loop
PingErrorFloor == 400                         \* Ping: resp.StatusCode >= 400 fails
USER_AGENT == "User-Agent"
XAPIKEY == "X-API-Key"
XAPISECRET == "X-API-Secret"
CONETENT_TYPE == "Content-Type"

None == [kind |-> "none"]

(***************************************************************************)
(* Config (type Config) and the values callers put in it.                  *)
(***************************************************************************)
RetryCounts == (-1)..MaxRetry
Timeouts == {0, 5, DefaultTimeout}
UserAgents == {"", "my-agent/2.0", DEFAULT_USER_AGENT}
BaseURLs == {"http://host", "http://host/"}
APIKeys == {"", "key"}
APISecrets == {"", "secret"}

Config ==
    [BaseURL : BaseURLs, APIKey : APIKeys, APISecret : APISecrets,
     Timeout : Timeouts, RetryCount : RetryCounts \cup {DefaultRetryCount},
     UserAgent : UserAgents]

\* Configs a caller builds before NewClient.
WideConfigs ==
    [BaseURL : BaseURLs, APIKey : APIKeys, APISecret : APISecrets,
     Timeout : Timeouts, RetryCount : RetryCounts, UserAgent : UserAgents]

\* The same, with the fields the retry loop never reads held fixed.
NarrowConfigs ==
    [BaseURL : {"http://host"}, APIKey : {"key"}, APISecret : {"secret"},
     Timeout : {0}, RetryCount : RetryCounts, UserAgent : {""}]

\* Configs that differ in what the request headers are made from.
HeaderConfigs ==
    [BaseURL : {"http://host"}, APIKey : APIKeys, APISecret : APISecrets,
     Timeout : {0}, RetryCount : {1}, UserAgent : {"", "my-agent/2.0"}]

\* Clients that retry once, and clients built from a negative RetryCount.
BatchConfigs ==
    [BaseURL : {"http://host"}, APIKey : {"key"}, APISecret : {"secret"},
     Timeout : {0}, RetryCount : {-1, 1}, UserAgent : {""}]

\* Base URLs with no, one and two trailing slashes, with one retry.
PathConfigs ==
    [BaseURL : BaseURLs \cup {"http://host//"}, APIKey : {"key"}, APISecret : {"secret"},
     Timeout : {0}, RetryCount : {1}, UserAgent : {""}]

\* One client configuration, with one retry.
UploadConfigs ==
    [BaseURL : {"http://host"}, APIKey : {"key"}, APISecret : {"secret"},
     Timeout : {0}, RetryCount : {1}, UserAgent : {""}]

ConfigFields == {"BaseURL", "APIKey", "APISecret", "Timeout", "RetryCount", "UserAgent"}

FieldValues(f) ==
    CASE f = "BaseURL" -> BaseURLs
      [] f = "APIKey" -> APIKeys
      [] f = "APISecret" -> APISecrets
      [] f = "Timeout" -> Timeouts
      [] f = "RetryCount" -> RetryCounts
      [] f = "UserAgent" -> UserAgents

(***************************************************************************)
(* NewClient: the defaults it writes into the caller's Config.             *)
(***************************************************************************)
NewClient_NonPositiveRetry(config) ==
    [config EXCEPT
        !.Timeout = IF config.Timeout = 0 THEN DefaultTimeout ELSE @,
        !.RetryCount = IF config.RetryCount <= 0 THEN DefaultRetryCount ELSE @,
        !.UserAgent = IF config.UserAgent = "" THEN DEFAULT_USER_AGENT ELSE @]

NewClient(config) ==
    [config EXCEPT
        !.Timeout = IF config.Timeout = 0 THEN DefaultTimeout ELSE @,
        !.RetryCount = IF config.RetryCount = 0 THEN DefaultRetryCount ELSE @,
        !.UserAgent = IF config.UserAgent = "" THEN DEFAULT_USER_AGENT ELSE @]

(***************************************************************************)
(* Operations and the shape of their requests.                             *)
(***************************************************************************)
UploadOps == {"UploadFile", "UploadBytes", "UploadFromReader"}
StatusOnlyOps ==
    {"DeleteFile", "CreateBucket", "DeleteBucket", "SetBucketPrivate", "CopyFile", "MoveFile"}
DataOps == {"GetFileURL", "GetFileInfo", "ListFiles", "ListBuckets", "GetBucketDomains"}
Ops == UploadOps \cup {"Ping"} \cup StatusOnlyOps \cup DataOps

\* Operations whose http.Request carries a body (multipart or JSON).
JSONBodyOps == {"CreateBucket", "SetBucketPrivate", "CopyFile", "MoveFile"}
BodyOps == UploadOps \cup JSONBodyOps

(***************************************************************************)
(* Upload requests (type UploadRequest).  A path is the sequence of its    *)
(* segments; a source is a sequence of bytes with a read position.         *)
(***************************************************************************)
Bytes == {0, 1}
Contents == UNION {[1..n -> Bytes] : n \in 0..MaxSize}

Paths == {<<"a", "x.txt">>, <<"b", "x.txt">>, <<"a", "y.txt">>}

\* filepath.Base(path)
Base(path) == IF path = <<>> THEN "." ELSE path[Len(path)]

UploadRequest(path, bucket, key, types, compress, quality, watermark, text, position, cb) ==
    [FilePath |-> path, Bucket |-> bucket, Key |-> key, AllowedTypes |-> types,
     Compress |-> compress, Quality |-> quality, Watermark |-> watermark,
     WatermarkText |-> text, WatermarkPosition |-> position, OnProgress |-> cb]

\* The upload of one file with no option set and no observer.
PlainUpload == UploadRequest(<<"a", "x.txt">>, "", "", <<>>, FALSE, 0, FALSE, "", "", FALSE)

\* Every combination of the options, on one file.
OptionUploads ==
    {UploadRequest(<<"a", "x.txt">>, b, k, t, c, q, w, wt, wp, FALSE) :
        b \in {"", "images"}, k \in {"", "k1"},
        t \in {<<>>, <<"image/png", "image/jpeg">>},
        c \in BOOLEAN, q \in {0, 80}, w \in BOOLEAN,
        wt \in {"", "X"}, wp \in {"", "center"}}

\* Uploads with and without a progress observer.
ObservedUploads == {[PlainUpload EXCEPT !.OnProgress = cb] : cb \in BOOLEAN}

\* The uploads explored in depth: every option combination on one content,
\* and every content with and without an observer.
UploadCases ==
    {[u |-> u, data |-> <<0, 1>>] : u \in OptionUploads}
        \cup {[u |-> u, data |-> d] : u \in ObservedUploads, d \in Contents}

\* type BatchUploadRequest.  The empty path stands for the empty string.
FileLists == UNION {[1..n -> Paths] : n \in 0..MaxFiles}

BatchUploadRequest(files, prefix, o, cb, fileCb) ==
    [Files |-> files, Bucket |-> o.Bucket, KeyPrefix |-> prefix,
     AllowedTypes |-> o.AllowedTypes, Compress |-> o.Compress, Quality |-> o.Quality,
     Watermark |-> o.Watermark, WatermarkText |-> o.WatermarkText,
     WatermarkPosition |-> o.WatermarkPosition, OnProgress |-> cb, OnFileProgress |-> fileCb]

\* Option sets of a batch: none set, and all set.
BatchOptions ==
    {PlainUpload,
     UploadRequest(<<>>, "images", "", <<"image/png">>, TRUE, 80, TRUE, "X", "center", FALSE)}

BatchRequests ==
    {BatchUploadRequest(f, p, o, cb, fileCb) :
        f \in FileLists, p \in {"", "batch"}, o \in BatchOptions,
        cb \in BOOLEAN, fileCb \in BOOLEAN}

\* os.Open / file.Stat outcomes of a source path.
FileStates == {"ok", "noopen", "nostat"}

Source(state, data, pos) == [data |-> data, state |-> state, pos |-> pos]

(***************************************************************************)
(* The multipart body and the http.Request.                                *)
(***************************************************************************)
\* writer.CreateFormFile("file", filename) and what io.Copy put in it.
FilePart(filename, data) == [name |-> "file", filename |-> filename, value |-> "", data |-> data]

\* writer.WriteField(name, value)
Field(name, value) == [name |-> name, filename |-> "", value |-> value, data |-> <<>>]

\* strconv.Itoa(n), n >= 0
Digit(d) ==
    CASE d = 0 -> "0" [] d = 1 -> "1" [] d = 2 -> "2" [] d = 3 -> "3" [] d = 4 -> "4"
      [] d = 5 -> "5" [] d = 6 -> "6" [] d = 7 -> "7" [] d = 8 -> "8" [] d = 9 -> "9"

RECURSIVE Itoa(_)
Itoa(n) == IF n < 10 THEN Digit(n) ELSE Itoa(n \div 10) \o Digit(n % 10)

FormFields_TypesInBody(u) ==
    (IF u.Bucket # "" THEN <<Field("bucket", u.Bucket)>> ELSE <<>>)
    \o (IF u.Key # "" THEN <<Field("key", u.Key)>> ELSE <<>>)
    \o [k \in 1..Len(u.AllowedTypes) |-> Field("allowedTypes", u.AllowedTypes[k])]

\* The text fields uploadReader writes after the file part, in order.
FormFields(u) ==
    (IF u.Bucket # "" THEN <<Field("bucket", u.Bucket)>> ELSE <<>>)
    \o (IF u.Key # "" THEN <<Field("key", u.Key)>> ELSE <<>>)
    \o (IF u.Compress
        THEN <<Field("compress", "true")>>
             \o (IF u.Quality > 0 THEN <<Field("quality", Itoa(u.Quality))>> ELSE <<>>)
        ELSE <<>>)
    \o (IF u.Watermark
        THEN <<Field("watermark", "true")>>
             \o (IF u.WatermarkText # "" THEN <<Field("watermarkText", u.WatermarkText)>> ELSE <<>>)
             \o (IF u.WatermarkPosition # ""
                 THEN <<Field("watermarkPosition", u.WatermarkPosition)>> ELSE <<>>)
        ELSE <<>>)

\* q.Add("allowedTypes", t) for each entry; q.Encode() keeps their order.
Query(u) == [k \in 1..Len(u.AllowedTypes) |-> <<"allowedTypes", u.AllowedTypes[k]>>]

Header_KeyAlways(config, contentType) ==
    {<<USER_AGENT, config.UserAgent>>, <<XAPIKEY, config.APIKey>>}
        \cup (IF config.APISecret # "" THEN {<<XAPISECRET, config.APISecret>>} ELSE {})
        \cup (IF contentType # "" THEN {<<CONETENT_TYPE, contentType>>} ELSE {})

\* httpReq.Header after the Header.Set calls every operation makes.
Header(config, contentType) ==
    {<<USER_AGENT, config.UserAgent>>}
        \cup (IF config.APIKey # "" THEN {<<XAPIKEY, config.APIKey>>} ELSE {})
        \cup (IF config.APISecret # "" THEN {<<XAPISECRET, config.APISecret>>} ELSE {})
        \cup (IF contentType # "" THEN {<<CONETENT_TYPE, contentType>>} ELSE {})

ContentType(o) ==
    CASE o \in UploadOps -> "multipart/form-data"
      [] o \in JSONBodyOps -> "application/json"
      [] OTHER -> ""

(***************************************************************************)
(* URLs.  A text that enters a URL is the sequence of its pieces: each     *)
(* piece is "/", "?", "#" or a run of other characters; the scheme and     *)
(* authority of a base URL are one piece.                                  *)
(***************************************************************************)
Chars(baseURL) ==
    CASE baseURL = "http://host" -> <<"http://host">>
      [] baseURL = "http://host/" -> <<"http://host", "/">>
      [] baseURL = "http://host//" -> <<"http://host", "/", "/">>

\* strings.TrimRight(s, cutset) for a cutset of one character
RECURSIVE TrimRight(_, _)
TrimRight(t, c) ==
    IF t # <<>> /\ t[Len(t)] = c THEN TrimRight(SubSeq(t, 1, Len(t) - 1), c) ELSE t

\* The text itself.
RECURSIVE Join(_)
Join(t) == IF t = <<>> THEN "" ELSE t[1] \o Join(Tail(t))

\* The arguments of an operation other than an upload.
CallArgs(bucket, key, expires, prefix, marker, delimiter, limit, tagCondition, shared) ==
    [bucket |-> bucket, key |-> key, prefix |-> prefix, expires |-> expires,
     marker |-> marker, delimiter |-> delimiter, limit |-> limit,
     tagCondition |-> tagCondition, shared |-> shared]

\* One bucket, one key, no expiry and no listing option.
PlainArgs == CallArgs(<<"images">>, <<"a.txt">>, 0, "", "", "", 0, "", FALSE)

Method(o) ==
    CASE o \in UploadOps \cup {"CreateBucket", "CopyFile", "MoveFile"} -> "POST"
      [] o = "Ping" -> "HEAD"
      [] o \in {"DeleteFile", "DeleteBucket"} -> "DELETE"
      [] o = "SetBucketPrivate" -> "PUT"
      [] OTHER -> "GET"

FilesOf(a) == <<"/", "api", "/", "public", "/", "files", "/">> \o a.bucket \o <<"/">> \o a.key

BucketsOf(a) == <<"/", "api", "/", "public", "/", "buckets", "/">> \o a.bucket

\* The format of fmt.Sprintf after its leading %s, with bucket and key put in
\* as they are.
Endpoint(o, a) ==
    CASE o \in UploadOps -> <<"/", "api", "/", "public", "/", "upload">>
      [] o = "Ping" -> <<>>
      [] o = "DeleteFile" -> FilesOf(a)
      [] o = "GetFileURL" -> FilesOf(a) \o <<"/", "url">>
      [] o = "GetFileInfo" -> FilesOf(a) \o <<"/", "info">>
      [] o = "CopyFile" -> FilesOf(a) \o <<"/", "copy">>
      [] o = "MoveFile" -> FilesOf(a) \o <<"/", "move">>
      [] o = "ListFiles" -> BucketsOf(a) \o <<"/", "files">>
      [] o \in {"ListBuckets", "CreateBucket"} -> <<"/", "api", "/", "public", "/", "buckets">>
      [] o = "DeleteBucket" -> BucketsOf(a)
      [] o = "GetBucketDomains" -> BucketsOf(a) \o <<"/", "domains">>
      [] o = "SetBucketPrivate" -> BucketsOf(a) \o <<"/", "private">>

URLText(o, config, a) == TrimRight(Chars(config.BaseURL), "/") \o Endpoint(o, a)

\* strings.Cut(s, sep): the text before the first sep, and the text after it
First(S) == CHOOSE k \in S : \A j \in S : k <= j

Before(t, c) ==
    LET at == {k \in 1..Len(t) : t[k] = c}
    IN  IF at = {} THEN t ELSE SubSeq(t, 1, First(at) - 1)

After(t, c) ==
    LET at == {k \in 1..Len(t) : t[k] = c}
    IN  IF at = {} THEN <<>> ELSE SubSeq(t, First(at) + 1, Len(t))

\* url.Parse as http.NewRequest calls it: the fragment is cut off at the
\* first "#", the query at the first "?", the rest is authority and path.
ParseURL(t) ==
    [host |-> Before(Before(t, "#"), "?")[1],
     path |-> Join(Tail(Before(Before(t, "#"), "?"))),
     rawQuery |-> Join(After(Before(t, "#"), "?"))]

\* The path of the request line: an empty path is sent as "/".
RequestURI(path) == IF path = "" THEN "/" ELSE path

HoursMinutesSeconds_Seconds(d) == Itoa(d) \o "s"

\* The digits and units of a duration of d >= 0 whole seconds: hours,
\* minutes and seconds, the leading units that are zero left out.
HoursMinutesSeconds(d) ==
    IF d >= 3600
    THEN Itoa(d \div 3600) \o "h" \o Itoa((d % 3600) \div 60) \o "m" \o Itoa(d % 60) \o "s"
    ELSE IF d >= 60 THEN Itoa(d \div 60) \o "m" \o Itoa(d % 60) \o "s"
    ELSE Itoa(d) \o "s"

\* time.Duration.String() of a whole number of seconds
DurationString(d) ==
    IF d < 0 THEN "-" \o HoursMinutesSeconds(0 - d) ELSE HoursMinutesSeconds(d)

\* if cond { q.Set(name, value) }
Set(cond, name, value) == IF cond THEN <<(<<name, value>>)>> ELSE <<>>

\* The parameters an operation other than an upload puts into the query.
CallQuery(o, a) ==
    CASE o = "GetFileURL" -> Set(a.expires > 0, "expires", DurationString(a.expires))
      [] o = "ListFiles" ->
            Set(a.prefix # "", "prefix", a.prefix)
                \o Set(a.marker # "", "marker", a.marker)
                \o Set(a.delimiter # "", "delimiter", a.delimiter)
                \o Set(a.limit > 0, "limit", Itoa(a.limit))
      [] o = "ListBuckets" ->
            Set(a.tagCondition # "", "tagCondition", a.tagCondition)
                \o Set(a.shared, "shared", "true")
      [] OTHER -> <<>>

\* The *http.Request of a call: built once, passed to every Do.
Request(o, config, a, query, form) ==
    [kind |-> "req", method |-> Method(o), host |-> ParseURL(URLText(o, config, a)).host,
     path |-> RequestURI(ParseURL(URLText(o, config, a)).path),
     rawQuery |-> ParseURL(URLText(o, config, a)).rawQuery,
     header |-> Header(config, ContentType(o)), query |-> query, form |-> form]

(***************************************************************************)
(* HTTP responses.  A body is empty, unparseable text, a body whose read   *)
(* fails, or a JSON object with the envelope fields (an absent field       *)
(* decodes to its zero value).                                             *)
(***************************************************************************)
Statuses == {StatusOK, 201, 400, ServerErrorFloor}

Body(k, s, c, m, g, d, r) ==
    [kind |-> k, success |-> s, code |-> c, message |-> m, msg |-> g, data |-> d, raw |-> r]

EmptyBody == Body("empty", FALSE, 0, "", "", "", "")
TextBody == Body("text", FALSE, 0, "", "", "", "Bad Gateway")
BrokenBody == Body("broken", FALSE, 0, "", "", "", "")

Verdicts == {<<TRUE, 0>>, <<FALSE, StatusOK>>, <<FALSE, 0>>, <<FALSE, 400>>}

JsonBodies ==
    {Body("json", v[1], v[2], m, g, IF v[1] \/ v[2] = StatusOK THEN "d1" ELSE "d0", "{..}") :
        v \in Verdicts, m \in {"", "denied"}, g \in {"", "too large"}}

SuccessBodies == {b \in JsonBodies : (b.success \/ b.code = StatusOK) /\ b.message = ""}

Bodies == {EmptyBody, TextBody, BrokenBody} \cup JsonBodies

Response(status, body) == [kind |-> "resp", status |-> status, body |-> body]

(***************************************************************************)
(* Results of a call.                                                      *)
(***************************************************************************)
Result(k, status, message, data) ==
    [kind |-> k, StatusCode |-> status, Message |-> message, data |-> data]

NoResult == Result("none", 0, "", "")
Ok(data) == Result("ok", 0, "", data)
\* fmt.Errorf("... failed after %d retries: %w", RetryCount, lastErr)
TransportError == Result("transport", 0, "request failed after retries", "")
\* &APIError{StatusCode, Message}
APIError(status, message) == Result("api", status, message, "")
\* fmt.Errorf("failed to parse response: %w", err)
ParseError == Result("parse", 0, "failed to parse response", "")
\* fmt.Errorf("failed to read response: %w", err)
ReadError == Result("read", 0, "failed to read response", "")
\* fmt.Errorf("ping failed with status code: %d", resp.StatusCode)
PingStatusError(status) == Result("plain", status, "ping failed with status code", "")
\* nil pointer dereference of resp
Panic == Result("panic", 0, "nil pointer dereference", "")
\* fmt.Errorf("failed to open file: %w", err)
OpenError == Result("local", 0, "failed to open file", "")
\* fmt.Errorf("failed to get file info: %w", err)
StatError == Result("local", 0, "failed to get file info", "")

VARIABLES
    heap,       \* the Config value the caller allocated (*Config points at it)
    given,      \* the Config as the caller first passed it to NewClient
    client,     \* the Client: its config pointer and httpClient.Timeout
    nNew,       \* NewClient calls so far
    pc,         \* position of the caller: idle, loop, sleep, after, done
    op,         \* operation in progress
    server,     \* how the server answers during this call
    i,          \* loop variable of the retry loop
    attempts,   \* httpClient.Do calls of this call
    served,     \* requests of this call the server has observed
    waits,      \* time.Sleep durations of this call, in order
    resp,       \* resp of the retry loop
    lastErr,    \* lastErr of the retry loop
    bodyLeft,   \* the request's Body still holds its bytes
    idleConn,   \* the transport holds an idle keep-alive connection
    result,     \* what the call returns
    upload,     \* the *UploadRequest uploadReader works on
    src,        \* the source being read: open/stat outcome, bytes, position
    pr,         \* the progressReader wrapped around the source, if any
    observed,   \* calls of the progress observer: <<uploaded, total>>, in order
    buf,        \* the multipart body written so far (bytes.Buffer)
    req,        \* the *http.Request of the call
    wire,       \* the requests handed to httpClient.Do by this call
    batch,      \* the BatchUpload in progress
    other,      \* a call made by another goroutine on the same Client
    args,       \* what the caller passed to the operation in progress
    unclosed    \* response bodies this call received and has not closed

vars ==
    <<heap, given, client, nNew, pc, op, server, i, attempts, served, waits,
      resp, lastErr, bodyLeft, idleConn, result,
      upload, src, pr, observed, buf, req, wire, batch, other, args, unclosed>>

uploadVars == <<upload, src, pr, observed, buf>>

callVars ==
    <<pc, op, server, i, attempts, served, waits, resp, lastErr, bodyLeft, idleConn, result,
      upload, src, pr, observed, buf, req, wire, batch, other, args, unclosed>>

NoClient == [kind |-> "none"]

\* c.config: the Config the client reads on every use.
ClientConfig == heap[client.config]

IdleCall ==
    /\ pc = "idle"
    /\ op = "none"
    /\ server = [mode |-> "free", n |-> 0]
    /\ i = 0
    /\ attempts = 0
    /\ served = 0
    /\ waits = <<>>
    /\ resp = None
    /\ lastErr = None
    /\ bodyLeft = FALSE
    /\ idleConn = FALSE
    /\ result = NoResult
    /\ upload = None
    /\ src = None
    /\ pr = None
    /\ observed = <<>>
    /\ buf = <<>>
    /\ req = None
    /\ wire = {}
    /\ batch = None
    /\ other = "out"
    /\ args = None
    /\ unclosed = 0

InitWith(configs) ==
    /\ heap \in [{"cfg"} -> configs]
    /\ given = None
    /\ client = NoClient
    /\ nNew = 0
    /\ IdleCall

Init == InitWith(NarrowConfigs)

InitConfig == InitWith(WideConfigs)

InitHeaders == InitWith(HeaderConfigs)

InitUpload == InitWith(UploadConfigs)

InitBatch == InitWith(BatchConfigs)

InitPaths == InitWith(PathConfigs)

(***************************************************************************)
(* NewClient(config): writes the defaults through the pointer, keeps the   *)
(* pointer in the Client and copies Timeout into the http.Client.          *)
(***************************************************************************)
NewClientCall ==
    /\ pc = "idle"
    /\ nNew < MaxNew
    /\ given' = IF nNew = 0 THEN heap["cfg"] ELSE given
    /\ heap' = [heap EXCEPT !["cfg"] = NewClient(@)]
    /\ client' = [kind |-> "client", config |-> "cfg", httpTimeout |-> heap'["cfg"].Timeout]
    /\ nNew' = nNew + 1
    /\ UNCHANGED callVars

\* The caller assigns a field of the Config value it still holds.
CallerWriteConfig(f, v) ==
    /\ pc = "idle"
    /\ client # NoClient
    /\ heap["cfg"][f] # v
    /\ heap' = [heap EXCEPT !["cfg"][f] = v]
    /\ UNCHANGED <<given, client, nNew>>
    /\ UNCHANGED callVars

(***************************************************************************)
(* The environment: what the server answers to the next request it         *)
(* observes.  "free" is an arbitrary server behind an unreliable network;  *)
(* the other modes are the servers the retry tests stand up: always 400,   *)
(* always 500, and 500 for the first n requests then 200 with a success    *)
(* envelope.                                                               *)
(***************************************************************************)
ServerModes ==
    {[mode |-> m, n |-> 0] : m \in {"free", "all400", "all500"}}
        \cup {[mode |-> "failN", n |-> k] : k \in 0..MaxRetry}

\* A server with three answers (accepted, refused in a 200 envelope, 500
\* with no body) behind an unreliable network.
FewAnswers ==
    {Response(StatusOK, Body("json", FALSE, StatusOK, "", "", "d1", "{..}")),
     Response(StatusOK, Body("json", FALSE, 400, "denied", "", "d0", "{..}")),
     Response(ServerErrorFloor, EmptyBody)}

ServerAnswers ==
    CASE server.mode = "free" -> {Response(s, b) : s \in Statuses, b \in Bodies}
      [] server.mode = "few" -> FewAnswers
      [] server.mode = "all400" -> {Response(400, b) : b \in Bodies}
      [] server.mode = "all500" -> {Response(ServerErrorFloor, b) : b \in Bodies}
      [] server.mode = "failN" ->
            IF served < server.n
            THEN {Response(ServerErrorFloor, b) : b \in Bodies}
            ELSE {Response(StatusOK, b) : b \in SuccessBodies}

\* The response to a HEAD request has no body.
Answers ==
    IF op = "Ping" THEN {Response(r.status, EmptyBody) : r \in ServerAnswers} ELSE ServerAnswers

(***************************************************************************)
(* c.httpClient.Do(req) on the request object built once per call.  The    *)
(* request's Body is drained by the first attempt that sends it.  A later  *)
(* attempt finds ContentLength > 0 with an empty Body: the write fails     *)
(* before anything is sent, and the transport rewinds the body (GetBody)   *)
(* and resends only when the failed write was on a reused keep-alive       *)
(* connection; otherwise Do returns the error.  A connection returns to    *)
(* the idle pool only when its response has no body, since the loop never  *)
(* reads or closes a response it discards.                                 *)
(***************************************************************************)
CanSend == op \notin BodyOps \/ bodyLeft \/ idleConn

\* time.Sleep(time.Duration(i+1) * time.Second)
SleepSeconds_Fixed(k) == 1

SleepSeconds(k) == k + 1

\* if lastErr == nil && resp.StatusCode < 500 { break }
Breaks(rsp, err) == err = None /\ rsp.status < ServerErrorFloor

\* The rest of one loop iteration after Do has returned (rsp, err).
AfterDo(rsp, err) ==
    /\ resp' = rsp
    /\ lastErr' = err
    /\ IF Breaks(rsp, err)
       THEN pc' = "after" /\ i' = i
       ELSE IF i < ClientConfig.RetryCount
            THEN pc' = "sleep" /\ i' = i
            ELSE pc' = "after" /\ i' = i + 1

\* An operation other than an upload, up to its retry loop: the request is
\* built and its headers are set.
StartCall(o, a, m) ==
    /\ pc = "idle"
    /\ client # NoClient
    /\ o \notin UploadOps
    /\ op' = o
    /\ args' = a
    /\ server' = m
    /\ pc' = "loop"
    /\ bodyLeft' = (o \in BodyOps)
    /\ req' = Request(o, ClientConfig, a, CallQuery(o, a), <<>>)
    /\ UNCHANGED <<i, attempts, served, waits, resp, lastErr, idleConn, result>>
    /\ UNCHANGED <<uploadVars, wire, batch, other, unclosed>>
    /\ UNCHANGED <<heap, given, client, nNew>>

(***************************************************************************)
(* Uploads, up to the retry loop: the source is opened, copied through the *)
(* progressReader into the multipart body, the fields are written and the  *)
(* request is built.                                                       *)
(***************************************************************************)
\* progressReader.Read: pr.read += int64(n)
AfterRead_LastChunk(p, n) == [p EXCEPT !.read = n]

AfterRead(p, n) == [p EXCEPT !.read = @ + n]

\* UploadFile(req), entered by a caller or by BatchUpload.
EnterUploadFile(u, s) ==
    /\ op' = "UploadFile"
    /\ upload' = u
    /\ src' = s
    /\ args' = u
    /\ pc' = "open"

UploadFileCall(u, s, m) ==
    /\ pc = "idle"
    /\ client # NoClient
    /\ EnterUploadFile(u, s)
    /\ server' = m
    /\ UNCHANGED <<i, attempts, served, waits, resp, lastErr, bodyLeft, idleConn, result>>
    /\ UNCHANGED <<pr, observed, buf, req, wire, batch, other, unclosed>>
    /\ UNCHANGED <<heap, given, client, nNew>>

OpenFails_Observed ==
    /\ pc = "open"
    /\ src.state # "ok"
    /\ result' = (IF src.state = "noopen" THEN OpenError ELSE StatError)
    /\ observed' = (IF upload.OnProgress THEN Append(observed, <<0, 0>>) ELSE observed)
    /\ pc' = "done"
    /\ UNCHANGED <<op, server, i, attempts, served, waits, resp, lastErr, bodyLeft, idleConn>>
    /\ UNCHANGED <<upload, src, pr, buf, req, wire, batch, other, args, unclosed>>
    /\ UNCHANGED <<heap, given, client, nNew>>

\* os.Open or file.Stat fails: UploadFile returns the error.
OpenFails ==
    /\ pc = "open"
    /\ src.state # "ok"
    /\ result' = (IF src.state = "noopen" THEN OpenError ELSE StatError)
    /\ pc' = "done"
    /\ UNCHANGED <<op, server, i, attempts, served, waits, resp, lastErr, bodyLeft, idleConn>>
    /\ UNCHANGED <<uploadVars, req, wire, batch, other, args, unclosed>>
    /\ UNCHANGED <<heap, given, client, nNew>>

\* The file is open: wrap it when an observer is set, enter uploadReader and
\* create the file part under filepath.Base(req.FilePath).
Opened ==
    /\ pc = "open"
    /\ src.state = "ok"
    /\ pr' = (IF upload.OnProgress THEN [read |-> 0, total |-> Len(src.data)] ELSE None)
    /\ buf' = <<FilePart(Base(upload.FilePath), <<>>)>>
    /\ pc' = "copy"
    /\ UNCHANGED <<op, server, i, attempts, served, waits, resp, lastErr, bodyLeft, idleConn,
                   result>>
    /\ UNCHANGED <<upload, src, observed, req, wire, batch, other, args, unclosed>>
    /\ UNCHANGED <<heap, given, client, nNew>>

\* UploadBytes(req): a bytes.Reader over req.Data, wrapped when an observer is
\* set; the UploadRequest handed to uploadReader has no path and no observer.
UploadBytesCall(u, filename, data, m) ==
    /\ pc = "idle"
    /\ client # NoClient
    /\ op' = "UploadBytes"
    /\ upload' = [u EXCEPT !.FilePath = <<>>, !.OnProgress = FALSE]
    /\ src' = Source("ok", data, 0)
    /\ args' = u
    /\ pr' = (IF u.OnProgress THEN [read |-> 0, total |-> Len(data)] ELSE None)
    /\ buf' = <<FilePart(filename, <<>>)>>
    /\ server' = m
    /\ pc' = "copy"
    /\ UNCHANGED <<i, attempts, served, waits, resp, lastErr, bodyLeft, idleConn, result>>
    /\ UNCHANGED <<observed, req, wire, batch, other, unclosed>>
    /\ UNCHANGED <<heap, given, client, nNew>>

\* UploadFromReader(req): size is req.Size, or the end offset of a seekable
\* reader when req.Size <= 0; the reader is wrapped when an observer is set
\* and the size is positive.
StreamSize(size, seekable, data) == IF size <= 0 /\ seekable THEN Len(data) ELSE size

\* seeker.Seek(offset, io.SeekStart) and seeker.Seek(0, io.SeekEnd)
SeekStart(s, offset) == [s EXCEPT !.pos = offset]
SeekEnd(s) == [s EXCEPT !.pos = Len(s.data)]

\* The reader once the size is known: currentPos is read, the reader is moved
\* to its end and then back to currentPos.
AfterSizing(s, size, seekable) ==
    IF size <= 0 /\ seekable THEN SeekStart(SeekEnd(s), s.pos) ELSE s

Wraps_Always(cb, size) == cb

\* if req.OnProgress != nil && size > 0
Wraps(cb, size) == cb /\ size > 0

UploadFromReaderCall(u, filename, s, seekable, size, m) ==
    /\ pc = "idle"
    /\ client # NoClient
    /\ op' = "UploadFromReader"
    /\ upload' = [u EXCEPT !.FilePath = <<>>, !.OnProgress = FALSE]
    /\ src' = AfterSizing(s, size, seekable)
    /\ args' = [OnProgress |-> u.OnProgress, Reader |-> s, seekable |-> seekable, Size |-> size]
    /\ pr' = (IF Wraps(u.OnProgress, StreamSize(size, seekable, s.data))
              THEN [read |-> 0, total |-> StreamSize(size, seekable, s.data)]
              ELSE None)
    /\ buf' = <<FilePart(filename, <<>>)>>
    /\ server' = m
    /\ pc' = "copy"
    /\ UNCHANGED <<i, attempts, served, waits, resp, lastErr, bodyLeft, idleConn, result>>
    /\ UNCHANGED <<observed, req, wire, batch, other, unclosed>>
    /\ UNCHANGED <<heap, given, client, nNew>>

\* io.Copy(fileWriter, reader): one Read that returns n > 0 bytes.
ReadChunk ==
    /\ pc = "copy"
    /\ src.pos < Len(src.data)
    /\ \E n \in 1..(Len(src.data) - src.pos) :
        /\ src' = [src EXCEPT !.pos = @ + n]
        /\ buf' = [buf EXCEPT ![1].data = @ \o SubSeq(src.data, src.pos + 1, src.pos + n)]
        /\ pr' = (IF pr = None THEN None ELSE AfterRead(pr, n))
        /\ observed' =
             (IF pr = None THEN observed ELSE Append(observed, <<pr'.read, pr'.total>>))
    /\ UNCHANGED <<pc, op, server, i, attempts, served, waits, resp, lastErr, bodyLeft, idleConn,
                   result>>
    /\ UNCHANGED <<upload, req, wire, batch, other, args, unclosed>>
    /\ UNCHANGED <<heap, given, client, nNew>>

\* The Read that returns (0, io.EOF), which also reaches the observer; then
\* the rest of uploadReader up to its loop: the fields, writer.Close(),
\* http.NewRequest on the buffer, the headers and the query.
ReadEOF ==
    /\ pc = "copy"
    /\ src.pos = Len(src.data)
    /\ pr' = (IF pr = None THEN None ELSE AfterRead(pr, 0))
    /\ observed' = (IF pr = None THEN observed ELSE Append(observed, <<pr'.read, pr'.total>>))
    /\ buf' = buf \o FormFields(upload)
    /\ req' = Request(op, ClientConfig, args, Query(upload), buf')
    /\ bodyLeft' = TRUE
    /\ pc' = "loop"
    /\ UNCHANGED <<op, server, i, attempts, served, waits, resp, lastErr, idleConn, result>>
    /\ UNCHANGED <<upload, src, wire, batch, other, args, unclosed>>
    /\ UNCHANGED <<heap, given, client, nNew>>

\* for i := 0; i <= c.config.RetryCount; i++ { resp, lastErr = c.httpClient.Do(req) ...
AttemptFails ==
    /\ pc = "loop"
    /\ i <= ClientConfig.RetryCount
    /\ server.mode \in {"free", "few"} \/ ~CanSend
    /\ attempts' = attempts + 1
    /\ bodyLeft' \in {bodyLeft, FALSE}
    /\ idleConn' = FALSE
    /\ AfterDo(None, [kind |-> "transport"])
    /\ wire' = wire \cup {req}
    /\ UNCHANGED <<op, server, served, waits, result>>
    /\ UNCHANGED <<uploadVars, req, batch, other, args, unclosed>>
    /\ UNCHANGED <<heap, given, client, nNew>>

AttemptAnswered ==
    /\ pc = "loop"
    /\ i <= ClientConfig.RetryCount
    /\ CanSend
    /\ attempts' = attempts + 1
    /\ served' = served + 1
    /\ bodyLeft' = FALSE
    /\ \E r \in Answers, keepAlive \in BOOLEAN :
        /\ idleConn' = (keepAlive /\ r.body.kind = "empty")
        /\ AfterDo(r, None)
    /\ wire' = wire \cup {req}
    /\ unclosed' = unclosed + 1
    /\ UNCHANGED <<op, server, waits, result>>
    /\ UNCHANGED <<uploadVars, req, batch, other, args>>
    /\ UNCHANGED <<heap, given, client, nNew>>

Sleep_Rewinds ==
    /\ pc = "sleep"
    /\ waits' = Append(waits, SleepSeconds(i))
    /\ i' = i + 1
    /\ pc' = "loop"
    /\ observed' = (IF pr = None THEN observed ELSE Append(observed, <<0, pr.total>>))
    /\ UNCHANGED <<op, server, attempts, served, resp, lastErr, bodyLeft, idleConn, result>>
    /\ UNCHANGED <<upload, src, pr, buf, req, wire, batch, other, args, unclosed>>
    /\ UNCHANGED <<heap, given, client, nNew>>

\* if i < c.config.RetryCount { time.Sleep(...) }, then i++
Sleep ==
    /\ pc = "sleep"
    /\ waits' = Append(waits, SleepSeconds(i))
    /\ i' = i + 1
    /\ pc' = "loop"
    /\ UNCHANGED <<op, server, attempts, served, resp, lastErr, bodyLeft, idleConn, result>>
    /\ UNCHANGED <<uploadVars, req, wire, batch, other, args, unclosed>>
    /\ UNCHANGED <<heap, given, client, nNew>>

\* The loop is over: by break, or because its condition is false.
LoopDone == pc = "after" \/ (pc = "loop" /\ i > ClientConfig.RetryCount)

(***************************************************************************)
(* Decoding.                                                               *)
(***************************************************************************)
\* json.Unmarshal(respBody, &v) == nil
JSONParses(body) == body.kind = "json"

\* isSuccess := apiResp.Success || (apiResp.Code == 200)
IsSuccess_SuccessOnly(body) == body.success

IsSuccess(body) == body.success \/ body.code = StatusOK

\* message := apiResp.Message; if message == "" { message = apiResp.Msg }
FailureMessage(body) == IF body.message = "" THEN body.msg ELSE body.message

\* APIError has the JSON fields statusCode, message and details: no msg.
DecodeAPIError(rsp) ==
    IF JSONParses(rsp.body)
    THEN APIError(rsp.status, rsp.body.message)
    ELSE APIError(rsp.status, rsp.body.raw)

\* handleErrorResponse(resp)
handleErrorResponse(rsp) ==
    IF rsp.body.kind = "broken" THEN ReadError ELSE DecodeAPIError(rsp)

\* uploadReader, from the end of its loop to its return.
uploadReader(rsp, err) ==
    IF err # None THEN TransportError
    ELSE IF rsp = None THEN Panic
    ELSE IF rsp.body.kind = "broken" THEN ReadError
    ELSE IF rsp.status # StatusOK THEN DecodeAPIError(rsp)
    ELSE IF ~JSONParses(rsp.body) THEN ParseError
    ELSE IF IsSuccess(rsp.body) THEN Ok(rsp.body.data)
    ELSE APIError(rsp.status, FailureMessage(rsp.body))

\* Ping, from the end of its loop to its return.
Ping(rsp, err) ==
    IF err # None THEN TransportError
    ELSE IF rsp = None THEN Panic
    ELSE IF rsp.status >= PingErrorFloor THEN PingStatusError(rsp.status)
    ELSE Ok("")

\* doRequestWithRetry returns (resp, nil) or (nil, error); the caller then
\* defers resp.Body.Close() and checks the status.
StatusOnly(rsp, err) ==
    IF err # None THEN TransportError
    ELSE IF rsp = None THEN Panic
    ELSE IF rsp.status # StatusOK THEN handleErrorResponse(rsp)
    ELSE Ok("")

\* ... and, for the operations that return data, decodes {success, data}
\* and returns data without reading success.
WithData(rsp, err) ==
    IF err # None THEN TransportError
    ELSE IF rsp = None THEN Panic
    ELSE IF rsp.status # StatusOK THEN handleErrorResponse(rsp)
    ELSE IF ~JSONParses(rsp.body) THEN ParseError
    ELSE Ok(rsp.body.data)

\* defer resp.Body.Close(): registered only once a response is in hand after
\* the loop, so it closes that one response.
Closes(rsp, err) == IF err = None /\ rsp # None THEN 1 ELSE 0

Finish(ops, res) ==
    /\ LoopDone
    /\ op \in ops
    /\ result' = res
    /\ unclosed' = unclosed - Closes(resp, lastErr)
    /\ pc' = "done"
    /\ UNCHANGED <<op, server, i, attempts, served, waits, resp, lastErr, bodyLeft, idleConn>>
    /\ UNCHANGED <<uploadVars, req, wire, batch, other, args>>
    /\ UNCHANGED <<heap, given, client, nNew>>

UploadReturns == Finish(UploadOps, uploadReader(resp, lastErr))

PingReturns == Finish({"Ping"}, Ping(resp, lastErr))

StatusOnlyReturns == Finish(StatusOnlyOps, StatusOnly(resp, lastErr))

WithDataReturns == Finish(DataOps, WithData(resp, lastErr))

\* The caller takes the result; the next call starts from scratch.
Return ==
    /\ pc = "done"
    /\ batch = None
    /\ pc' = "idle"
    /\ op' = "none"
    /\ server' = [mode |-> "free", n |-> 0]
    /\ i' = 0
    /\ attempts' = 0
    /\ served' = 0
    /\ waits' = <<>>
    /\ resp' = None
    /\ lastErr' = None
    /\ bodyLeft' = FALSE
    /\ idleConn' = FALSE
    /\ result' = NoResult
    /\ upload' = None
    /\ src' = None
    /\ pr' = None
    /\ observed' = <<>>
    /\ buf' = <<>>
    /\ req' = None
    /\ wire' = {}
    /\ args' = None
    /\ unclosed' = 0
    /\ UNCHANGED <<batch, other>>
    /\ UNCHANGED <<heap, given, client, nNew>>

(***************************************************************************)
(* BatchUpload: one UploadFile per entry of Files, in order, each between  *)
(* two calls of the batch observer.                                        *)
(***************************************************************************)
\* err.Error()
ErrorString(res) ==
    IF res.kind = "api"
    THEN [text |-> "ling storage api error", code |-> res.StatusCode, detail |-> res.Message]
    ELSE [text |-> res.Message, code |-> 0, detail |-> ""]

\* uploadReq.Key = req.KeyPrefix + "/" + filename
BatchKey_PrefixOnly(b, filePath) == IF b.KeyPrefix # "" THEN b.KeyPrefix ELSE ""

BatchKey(b, filePath) == IF b.KeyPrefix # "" THEN b.KeyPrefix \o "/" \o Base(filePath) ELSE ""

\* filePath of iteration k of `for i, filePath := range req.Files`
CurrentFile_Reversed(b, k) == b.Files[Len(b.Files) - k]

CurrentFile(b, k) == b.Files[k + 1]

\* The UploadRequest BatchUpload builds for one file.
BatchItem(b, filePath) ==
    UploadRequest(filePath, b.Bucket, BatchKey(b, filePath), b.AllowedTypes, b.Compress,
                  b.Quality, b.Watermark, b.WatermarkText, b.WatermarkPosition,
                  b.OnFileProgress)

\* The locals of one UploadFile are gone.
ForgetCall ==
    /\ op' = "none"
    /\ i' = 0
    /\ attempts' = 0
    /\ served' = 0
    /\ waits' = <<>>
    /\ resp' = None
    /\ lastErr' = None
    /\ bodyLeft' = FALSE
    /\ idleConn' = FALSE
    /\ result' = NoResult
    /\ upload' = None
    /\ src' = None
    /\ pr' = None
    /\ observed' = <<>>
    /\ buf' = <<>>
    /\ req' = None
    /\ wire' = {}
    /\ args' = None
    /\ unclosed' = 0

\* BatchUpload(req): the result is allocated with Total = len(req.Files).
BatchUploadCall(b, m) ==
    /\ pc = "idle"
    /\ client # NoClient
    /\ batch' = [kind |-> "batch", req |-> b, i |-> 0, Success |-> <<>>, Failed |-> <<>>,
                 Total |-> Len(b.Files), calls |-> <<>>, attempts |-> 0]
    /\ server' = m
    /\ pc' = "batch"
    /\ UNCHANGED <<op, i, attempts, served, waits, resp, lastErr, bodyLeft, idleConn, result>>
    /\ UNCHANGED <<uploadVars, req, wire, other, args, unclosed>>
    /\ UNCHANGED <<heap, given, client, nNew>>

\* One iteration of `for i, filePath := range req.Files`, up to the call of
\* UploadFile: the observer is told (i, len(Files), filePath), the
\* UploadRequest is built and UploadFile is entered.
BatchNext ==
    /\ pc = "batch"
    /\ batch.i < Len(batch.req.Files)
    /\ LET filePath == CurrentFile(batch.req, batch.i)
       IN  /\ batch' =
                 [batch EXCEPT !.calls =
                     IF batch.req.OnProgress
                     THEN Append(@, <<batch.i, Len(batch.req.Files), filePath>>)
                     ELSE @]
           /\ \E st \in FileStates :
                 EnterUploadFile(BatchItem(batch.req, filePath), Source(st, <<0>>, 0))
    /\ UNCHANGED <<server, i, attempts, served, waits, resp, lastErr, bodyLeft, idleConn,
                   result>>
    /\ UNCHANGED <<pr, observed, buf, req, wire, other, unclosed>>
    /\ UNCHANGED <<heap, given, client, nNew>>

\* UploadFile has returned: its error goes to Failed as (filePath,
\* err.Error()), its result to Success, and the loop moves on.
BatchCollect ==
    /\ pc = "done"
    /\ batch # None
    /\ result.kind # "panic"
    /\ batch' =
         [batch EXCEPT
             !.Success = IF result.kind = "ok"
                         THEN Append(@, [data |-> result.data, of |-> batch.i]) ELSE @,
             !.Failed = IF result.kind # "ok"
                        THEN Append(@, [File |-> upload.FilePath, Error |-> ErrorString(result),
                                        of |-> batch.i])
                        ELSE @,
             !.i = @ + 1,
             !.attempts = @ + attempts]
    /\ ForgetCall
    /\ pc' = "batch"
    /\ UNCHANGED <<server, other>>
    /\ UNCHANGED <<heap, given, client, nNew>>

\* UploadFile panicked: nothing in BatchUpload recovers, the panic leaves it.
BatchUnwinds ==
    /\ pc = "done"
    /\ batch # None
    /\ result.kind = "panic"
    /\ batch' = [batch EXCEPT !.attempts = @ + attempts]
    /\ pc' = "batchdone"
    /\ UNCHANGED <<op, server, i, attempts, served, waits, resp, lastErr, bodyLeft, idleConn,
                   result>>
    /\ UNCHANGED <<uploadVars, req, wire, other, args, unclosed>>
    /\ UNCHANGED <<heap, given, client, nNew>>

\* The loop is over: the observer is told (len(Files), len(Files), "") and
\* BatchUpload returns (result, nil).
BatchFinish ==
    /\ pc = "batch"
    /\ batch.i = Len(batch.req.Files)
    /\ batch' =
         [batch EXCEPT !.calls =
             IF batch.req.OnProgress
             THEN Append(@, <<Len(batch.req.Files), Len(batch.req.Files), <<>> >>)
             ELSE @]
    /\ result' = Ok("")
    /\ pc' = "batchdone"
    /\ UNCHANGED <<op, server, i, attempts, served, waits, resp, lastErr, bodyLeft, idleConn>>
    /\ UNCHANGED <<uploadVars, req, wire, other, args, unclosed>>
    /\ UNCHANGED <<heap, given, client, nNew>>

\* The caller takes the batch result.
BatchReturn ==
    /\ pc = "batchdone"
    /\ ForgetCall
    /\ batch' = None
    /\ server' = [mode |-> "free", n |-> 0]
    /\ pc' = "idle"
    /\ UNCHANGED other
    /\ UNCHANGED <<heap, given, client, nNew>>

(***************************************************************************)
(* A call made by another goroutine on the same Client.  It has its own    *)
(* request and response; what it shares with the caller's call is          *)
(* c.httpClient, whose transport keeps one pool of idle connections per    *)
(* host.                                                                   *)
(***************************************************************************)
\* c.httpClient.Do(req) in the other goroutine: it takes the idle connection
\* of the pool when there is one, and dials otherwise.
OtherDo ==
    /\ other = "out"
    /\ client # NoClient
    /\ other' = (IF idleConn THEN "reused" ELSE "dialed")
    /\ idleConn' = FALSE
    /\ UNCHANGED <<pc, op, server, i, attempts, served, waits, resp, lastErr, bodyLeft, result>>
    /\ UNCHANGED <<uploadVars, req, wire, batch, args, unclosed>>
    /\ UNCHANGED <<heap, given, client, nNew>>

\* Its response has been read to the end and closed: the connection goes to
\* the pool.
OtherReturns ==
    /\ other # "out"
    /\ other' = "out"
    /\ idleConn' = TRUE
    /\ UNCHANGED <<pc, op, server, i, attempts, served, waits, resp, lastErr, bodyLeft, result>>
    /\ UNCHANGED <<uploadVars, req, wire, batch, args, unclosed>>
    /\ UNCHANGED <<heap, given, client, nNew>>

\* The program constructs its client once and then uses it.
Construct == client = NoClient /\ NewClientCall

Next ==
    \/ Construct
    \/ \E v \in RetryCounts : CallerWriteConfig("RetryCount", v)
    \/ \E o \in Ops \ UploadOps, m \in ServerModes : StartCall(o, PlainArgs, m)
    \/ \E m \in ServerModes : UploadFileCall(PlainUpload, Source("ok", <<0>>, 0), m)
    \/ \E m \in ServerModes : UploadBytesCall(PlainUpload, "x.txt", <<0>>, m)
    \/ \E m \in ServerModes :
           UploadFromReaderCall(PlainUpload, "x.txt", Source("ok", <<0>>, 0), FALSE, 1, m)
    \/ Opened
    \/ ReadChunk
    \/ ReadEOF
    \/ AttemptFails
    \/ AttemptAnswered
    \/ Sleep
    \/ UploadReturns
    \/ PingReturns
    \/ StatusOnlyReturns
    \/ WithDataReturns
    \/ Return

Spec == Init /\ [][Next]_vars

\* The steps a call in progress takes by itself: a local read, an attempt
\* (each attempt returns, with a response or an error), a sleep that ends,
\* the code after the loop.
CallStep ==
    \/ Opened
    \/ ReadChunk
    \/ ReadEOF
    \/ AttemptFails
    \/ AttemptAnswered
    \/ Sleep
    \/ UploadReturns
    \/ PingReturns
    \/ StatusOnlyReturns
    \/ WithDataReturns

\* The same program, with a call in progress never left waiting forever.
SpecLive == Spec /\ WF_vars(CallStep)

NextConfig ==
    \/ NewClientCall
    \/ \E f \in ConfigFields : \E v \in FieldValues(f) : CallerWriteConfig(f, v)

SpecConfig == InitConfig /\ [][NextConfig]_vars

\* Calls of every operation on clients that differ in key, secret and agent.
NextHeaders ==
    \/ Construct
    \/ \E o \in Ops \ UploadOps, m \in ServerModes : StartCall(o, PlainArgs, m)
    \/ \E m \in ServerModes : UploadFileCall(PlainUpload, Source("ok", <<0>>, 0), m)
    \/ \E m \in ServerModes : UploadBytesCall(PlainUpload, "x.txt", <<0>>, m)
    \/ \E m \in ServerModes :
           UploadFromReaderCall(PlainUpload, "x.txt", Source("ok", <<0>>, 0), FALSE, 1, m)
    \/ Opened
    \/ ReadChunk
    \/ ReadEOF
    \/ AttemptFails
    \/ AttemptAnswered
    \/ Sleep
    \/ UploadReturns
    \/ PingReturns
    \/ StatusOnlyReturns
    \/ WithDataReturns
    \/ Return

SpecHeaders == InitHeaders /\ [][NextHeaders]_vars

\* Servers that answer 500 to the first n requests of a call.
UploadServerModes == {[mode |-> "failN", n |-> k] : k \in 0..1}

\* Uploads of every kind, over the upload cases.
NextUpload ==
    \/ Construct
    \/ \E c \in UploadCases, st \in FileStates, m \in UploadServerModes :
           UploadFileCall(c.u, Source(st, c.data, 0), m)
    \/ \E c \in UploadCases, m \in UploadServerModes :
           UploadBytesCall(c.u, "x.txt", c.data, m)
    \/ \E c \in UploadCases, m \in UploadServerModes :
           \E seekable \in BOOLEAN, size \in {0, Len(c.data)} :
               UploadFromReaderCall(c.u, "x.txt", Source("ok", c.data, 0), seekable, size, m)
    \/ OpenFails
    \/ Opened
    \/ ReadChunk
    \/ ReadEOF
    \/ AttemptFails
    \/ AttemptAnswered
    \/ Sleep
    \/ UploadReturns
    \/ Return

SpecUpload == InitUpload /\ [][NextUpload]_vars

BatchServerModes == {[mode |-> "few", n |-> 0]}

\* Batch uploads.
NextBatch ==
    \/ Construct
    \/ \E b \in BatchRequests, m \in BatchServerModes : BatchUploadCall(b, m)
    \/ BatchNext
    \/ OpenFails
    \/ Opened
    \/ ReadChunk
    \/ ReadEOF
    \/ AttemptFails
    \/ AttemptAnswered
    \/ Sleep
    \/ UploadReturns
    \/ BatchCollect
    \/ BatchUnwinds
    \/ BatchFinish
    \/ BatchReturn

SpecBatch == InitBatch /\ [][NextBatch]_vars

\* Calls of every operation while another goroutine uses the same Client.
NextConcurrent ==
    \/ Construct
    \/ \E o \in Ops \ UploadOps, m \in UploadServerModes : StartCall(o, PlainArgs, m)
    \/ \E m \in UploadServerModes : UploadFileCall(PlainUpload, Source("ok", <<0>>, 0), m)
    \/ \E m \in UploadServerModes : UploadBytesCall(PlainUpload, "x.txt", <<0>>, m)
    \/ \E m \in UploadServerModes :
           UploadFromReaderCall(PlainUpload, "x.txt", Source("ok", <<0>>, 0), FALSE, 1, m)
    \/ Opened
    \/ ReadChunk
    \/ ReadEOF
    \/ AttemptFails
    \/ AttemptAnswered
    \/ Sleep
    \/ UploadReturns
    \/ PingReturns
    \/ StatusOnlyReturns
    \/ WithDataReturns
    \/ Return
    \/ OtherDo
    \/ OtherReturns

SpecConcurrent == InitUpload /\ [][NextConcurrent]_vars

\* Readers at every position of every content.
Readers == {Source("ok", d, p) : d \in Contents, p \in 0..MaxSize}

\* Uploads from readers that are or are not seekable, already read in part or
\* not, with Size unset (negative or zero) or set to what is left to read.
NextReader ==
    \/ Construct
    \/ \E u \in ObservedUploads, s \in {r \in Readers : r.pos <= Len(r.data)} :
           \E seekable \in BOOLEAN, size \in {-1, 0, Len(s.data) - s.pos}, m \in UploadServerModes :
               UploadFromReaderCall(u, "x.txt", s, seekable, size, m)
    \/ ReadChunk
    \/ ReadEOF
    \/ AttemptFails
    \/ AttemptAnswered
    \/ Sleep
    \/ UploadReturns
    \/ Return

SpecReader == InitUpload /\ [][NextReader]_vars

\* Keys: a plain name, a name in a directory, names with "?" and "#".
Keys == {<<"a.txt">>, <<"dir", "/", "a.txt">>, <<"a", "?", "b">>, <<"a", "#", "b">>}

\* Expiry durations in seconds: negative, zero, a second, a minute and a
\* half, an hour, an hour and a half.
Durations == {-1, 0, 1, 90, 3600, 5400}

\* Calls of the operations other than uploads, with their arguments.
PathCalls ==
    {[o |-> "GetFileURL", a |-> CallArgs(<<"images">>, k, d, "", "", "", 0, "", FALSE)] :
        k \in Keys, d \in Durations}
    \cup {[o |-> o, a |-> CallArgs(<<"images">>, k, 0, "", "", "", 0, "", FALSE)] :
            o \in {"DeleteFile", "GetFileInfo", "CopyFile", "MoveFile"}, k \in Keys}
    \cup {[o |-> "ListFiles", a |-> CallArgs(<<"images">>, <<>>, 0, p, "", "", l, "", FALSE)] :
            p \in {"", "img"}, l \in {0, 10}}
    \cup {[o |-> "ListBuckets", a |-> CallArgs(<<>>, <<>>, 0, "", "", "", 0, t, sh)] :
            t \in {"", "team"}, sh \in BOOLEAN}
    \cup {[o |-> o, a |-> PlainArgs] :
            o \in {"Ping", "CreateBucket", "DeleteBucket", "GetBucketDomains",
                   "SetBucketPrivate"}}

\* Calls of every operation on every kind of key and base URL.
NextPaths ==
    \/ Construct
    \/ \E c \in PathCalls, m \in UploadServerModes : StartCall(c.o, c.a, m)
    \/ \E m \in UploadServerModes : UploadBytesCall(PlainUpload, "x.txt", <<0>>, m)
    \/ ReadChunk
    \/ ReadEOF
    \/ AttemptFails
    \/ AttemptAnswered
    \/ Sleep
    \/ UploadReturns
    \/ PingReturns
    \/ StatusOnlyReturns
    \/ WithDataReturns
    \/ Return

SpecPaths == InitPaths /\ [][NextPaths]_vars

(***************************************************************************)
(* Vocabulary of the properties.                                           *)
(***************************************************************************)
RECURSIVE SumSeq(_)
SumSeq(q) == IF q = <<>> THEN 0 ELSE q[1] + SumSeq(Tail(q))

\* The last attempt ended in a transport error or in a status >= 500.
LastAttemptFailed == lastErr # None \/ (resp # None /\ resp.status >= 500)

\* The call ended with a response in hand whose body could be read.
FinalResponse == pc = "done" /\ lastErr = None /\ resp # None /\ resp.body.kind # "broken"

\* The call returned an error value.
ReturnedError == result.kind \in {"transport", "api", "plain", "parse", "read"}

\* The loop ran out of attempts instead of breaking on a response.
Exhausted == pc = "done" /\ attempts >= 1 /\ i > ClientConfig.RetryCount

(***************************************************************************)
(* C1.  A further attempt is issued only after an attempt that ended in a  *)
(* transport error or a status >= 500; no call issues more than            *)
(* RetryCount+1 attempts; against a server that always answers 400 the     *)
(* server observes exactly 1 request and the call returns an error.        *)
(***************************************************************************)
C1_RetryOnlyOnFailure ==
    /\ (pc \in {"loop", "sleep"} /\ attempts >= 1) => LastAttemptFailed
    /\ pc # "idle" => attempts <= ClientConfig.RetryCount + 1
    /\ (pc = "done" /\ server.mode = "all400") =>
            (served = 1 /\ attempts = 1 /\ ReturnedError)

(***************************************************************************)
(* C2.  Against a server that answers 500 to its first N requests          *)
(* (N < RetryCount) and 200 with a success envelope afterwards, the call   *)
(* succeeds and the server observes exactly N+1 requests.                  *)
(***************************************************************************)
C2_SucceedsAfterNFailures ==
    (pc = "done" /\ server.mode = "failN" /\ server.n < ClientConfig.RetryCount) =>
        (result.kind = "ok" /\ served = server.n + 1)

(***************************************************************************)
(* C3.  Against a server that always answers 500, every operation fails    *)
(* after exactly RetryCount+1 attempts with an APIError whose StatusCode   *)
(* is 500.  Stated for RetryCount >= 1, readable response bodies and the   *)
(* operations whose request has no body: the claim fails already there.    *)
(***************************************************************************)
C3_Always500 ==
    (/\ pc = "done"
     /\ server.mode = "all500"
     /\ ClientConfig.RetryCount >= 1
     /\ op \notin BodyOps
     /\ resp # None => resp.body.kind # "broken") =>
        (/\ attempts = ClientConfig.RetryCount + 1
         /\ result.kind = "api"
         /\ result.StatusCode = 500)

(***************************************************************************)
(* C4.  Once the attempts are exhausted the last attempt decides the       *)
(* error: a transport failure gives the wrapped transport error, a         *)
(* response gives an APIError decoded from that response's body.           *)
(***************************************************************************)
C4_LastAttemptDecides ==
    Exhausted =>
        /\ lastErr # None => result = TransportError
        /\ (lastErr = None /\ resp.body.kind # "broken") =>
              /\ result.kind = "api"
              /\ result.StatusCode = resp.status
              /\ IF resp.body.kind = "json"
                 THEN result.Message \in {resp.body.message, resp.body.msg}
                 ELSE result.Message = resp.body.raw

(***************************************************************************)
(* C5.  The wait between attempt k-1 and attempt k of a call is exactly k  *)
(* seconds, attempt k is issued only after those k waits, no wait follows  *)
(* the last attempt, and a call whose RetryCount+1 attempts all fail has   *)
(* waited 1+2+...+RetryCount seconds in total.                             *)
(***************************************************************************)
C5_LinearBackoff ==
    /\ \A k \in 1..Len(waits) : waits[k] = k
    /\ pc = "loop" => Len(waits) = attempts
    /\ (pc \in {"sleep", "after", "done"} /\ attempts >= 1) => Len(waits) = attempts - 1
    /\ (pc = "done" /\ i > ClientConfig.RetryCount /\ attempts = ClientConfig.RetryCount + 1) =>
            2 * SumSeq(waits) = ClientConfig.RetryCount * (ClientConfig.RetryCount + 1)

\* A call with RetryCount 2 whose three attempts all failed has waited 1 s and 2 s.
C5_Witness ==
    /\ pc = "done"
    /\ ClientConfig.RetryCount = 2
    /\ attempts = 3
    /\ LastAttemptFailed
    /\ waits = <<1, 2>>

(***************************************************************************)
(* C6.  NewClient sets Timeout to 30 s exactly when it was 0, RetryCount   *)
(* to 3 exactly when it was 0 and UserAgent to "LingStorage-SDK/1.0.0"     *)
(* exactly when it was empty, leaves every other field as it was, and      *)
(* applied to its own result changes nothing.                              *)
(***************************************************************************)
C6_DefaultsOnce ==
    [][nNew' = nNew + 1 =>
        LET old == heap["cfg"]
            new == heap'["cfg"]
        IN  /\ new.Timeout = (IF old.Timeout = 0 THEN 30 ELSE old.Timeout)
            /\ new.RetryCount = (IF old.RetryCount = 0 THEN 3 ELSE old.RetryCount)
            /\ new.UserAgent =
                 (IF old.UserAgent = "" THEN "LingStorage-SDK/1.0.0" ELSE old.UserAgent)
            /\ new.BaseURL = old.BaseURL
            /\ new.APIKey = old.APIKey
            /\ new.APISecret = old.APISecret
            /\ NewClient(new) = new
            /\ (nNew >= 1 /\ old = NewClient(given)) => new = old]_vars

\* NewClient has run twice on a Config passed with Timeout, RetryCount and
\* UserAgent unset and an empty APIKey: the three defaults are in place and
\* the rest is as it was passed.
C6_Witness ==
    /\ nNew = 2
    /\ given.Timeout = 0
    /\ given.RetryCount = 0
    /\ given.UserAgent = ""
    /\ given.APIKey = ""
    /\ heap["cfg"] =
         [given EXCEPT !.Timeout = 30, !.RetryCount = 3, !.UserAgent = "LingStorage-SDK/1.0.0"]

(***************************************************************************)
(* C7.  After construction the configuration the client uses never         *)
(* changes, whatever the caller later writes to the Config it passed in.   *)
(***************************************************************************)
C7_ConfigImmutable ==
    [][client # NoClient =>
        /\ ClientConfig' = ClientConfig
        /\ client'.httpTimeout = client.httpTimeout]_vars

(***************************************************************************)
(* C8.  An upload whose final response is a 200 with a parseable JSON      *)
(* body succeeds, returning the envelope's data, if and only if the        *)
(* envelope has success = true or code = 200.                              *)
(***************************************************************************)
C8_EitherEnvelope ==
    (FinalResponse /\ op \in UploadOps /\ resp.status = 200 /\ resp.body.kind = "json") =>
        /\ result.kind = "ok" <=> (resp.body.success \/ resp.body.code = 200)
        /\ result.kind = "ok" => result.data = resp.body.data
        /\ result.kind # "ok" => result.kind = "api"

\* An upload accepted on code = 200 alone, in a {code, msg, data} envelope.
C8_Witness ==
    /\ FinalResponse
    /\ op = "UploadFile"
    /\ resp.status = 200
    /\ resp.body.kind = "json"
    /\ ~resp.body.success
    /\ resp.body.code = 200
    /\ result = Ok("d1")

(***************************************************************************)
(* C9.  When a call fails with a response whose JSON body carries message  *)
(* and/or msg, the APIError's Message is message when non-empty and msg    *)
(* otherwise, for a failure envelope on HTTP 200 and for a non-200 status. *)
(***************************************************************************)
C9_MessageThenMsg ==
    (/\ FinalResponse
     /\ ReturnedError
     /\ resp.body.kind = "json"
     /\ resp.body.message # "" \/ resp.body.msg # "") =>
        /\ result.kind = "api"
        /\ result.Message =
             (IF resp.body.message # "" THEN resp.body.message ELSE resp.body.msg)

(***************************************************************************)
(* C10.  For every operation, Ping included, a final response whose status *)
(* is not 200 makes the call fail with an APIError carrying that status    *)
(* and a Message decoded from the JSON body, or the raw body text when the *)
(* body is not JSON.                                                       *)
(***************************************************************************)
C10_Non200IsAPIError ==
    (FinalResponse /\ resp.status # 200) =>
        /\ result.kind = "api"
        /\ result.StatusCode = resp.status
        /\ IF resp.body.kind = "json"
           THEN result.Message \in {resp.body.message, resp.body.msg}
           ELSE result.Message = resp.body.raw

(***************************************************************************)
(* C11.  For every operation other than Ping, a final response with status *)
(* 200 whose JSON envelope indicates failure (success false, code not 200) *)
(* makes the call return an APIError carrying the status code and the      *)
(* envelope's message, never a nil error or a result value.  Stated for an *)
(* envelope that carries a message.                                        *)
(***************************************************************************)
C11_FailureEnvelopeIsError ==
    (/\ FinalResponse
     /\ op # "Ping"
     /\ resp.status = 200
     /\ resp.body.kind = "json"
     /\ ~resp.body.success
     /\ resp.body.code # 200
     /\ resp.body.message # "") =>
        /\ result.kind = "api"
        /\ result.StatusCode = 200
        /\ result.Message = resp.body.message

(***************************************************************************)
(* C12.  Every request handed to the HTTP client, on every attempt of      *)
(* every operation, carries exactly one User-Agent header, equal to the    *)
(* configured user agent, carries X-API-Key if and only if APIKey is       *)
(* non-empty and X-API-Secret if and only if APISecret is non-empty, each  *)
(* with the configured value.                                              *)
(***************************************************************************)
C12_AuthHeaders ==
    /\ attempts >= 1 => wire # {}
    /\ \A w \in wire :
        /\ {h \in w.header : h[1] = "User-Agent"} = {<<"User-Agent", ClientConfig.UserAgent>>}
        /\ {h \in w.header : h[1] = "X-API-Key"} =
             (IF ClientConfig.APIKey # "" THEN {<<"X-API-Key", ClientConfig.APIKey>>} ELSE {})
        /\ {h \in w.header : h[1] = "X-API-Secret"} =
             (IF ClientConfig.APISecret # ""
              THEN {<<"X-API-Secret", ClientConfig.APISecret>>} ELSE {})

\* The second attempt of a call made with a secret and no key has been issued.
C12_Witness ==
    /\ attempts = 2
    /\ wire # {}
    /\ ClientConfig.APIKey = ""
    /\ ClientConfig.APISecret = "secret"
    /\ \A w \in wire : <<"X-API-Secret", "secret">> \in w.header

(***************************************************************************)
(* C13.  The multipart body of an upload request holds exactly one part    *)
(* `file`, with exactly the source bytes (for UploadFile under the base    *)
(* name of the path); the text fields bucket and key when non-empty;       *)
(* compress=true, and quality=<Quality> when Quality > 0, when Compress is *)
(* set; watermark=true, with watermarkText and watermarkPosition when      *)
(* non-empty, when Watermark is set.  Each AllowedTypes entry is one       *)
(* repeated allowedTypes query parameter and never a body field.           *)
(***************************************************************************)
HasField(form, name, value) ==
    \E k \in 2..Len(form) :
        form[k] = [name |-> name, filename |-> "", value |-> value, data |-> <<>>]

C13_MultipartBody ==
    (req # None /\ op \in UploadOps) =>
        /\ Len(req.form) >= 1
        /\ req.form[1].name = "file"
        /\ req.form[1].data = src.data
        /\ op = "UploadFile" => req.form[1].filename = upload.FilePath[Len(upload.FilePath)]
        /\ \A k \in 2..Len(req.form) : req.form[k].name \notin {"file", "allowedTypes"}
        /\ upload.Bucket # "" => HasField(req.form, "bucket", upload.Bucket)
        /\ upload.Key # "" => HasField(req.form, "key", upload.Key)
        /\ upload.Compress => HasField(req.form, "compress", "true")
        /\ (upload.Compress /\ upload.Quality = 80) => HasField(req.form, "quality", "80")
        /\ upload.Watermark => HasField(req.form, "watermark", "true")
        /\ (upload.Watermark /\ upload.WatermarkText # "") =>
              HasField(req.form, "watermarkText", upload.WatermarkText)
        /\ (upload.Watermark /\ upload.WatermarkPosition # "") =>
              HasField(req.form, "watermarkPosition", upload.WatermarkPosition)
        /\ Len(req.query) = Len(upload.AllowedTypes)
        /\ \A k \in 1..Len(req.query) : req.query[k] = <<"allowedTypes", upload.AllowedTypes[k]>>
        /\ \A w \in wire : w = req

\* An upload with compress, quality 80, watermark, watermark text "X" and two
\* allowed types has been sent: five parts in the body, two query parameters.
C13_Witness ==
    /\ pc = "done"
    /\ op = "UploadFile"
    /\ wire # {}
    /\ upload.Compress /\ upload.Quality = 80
    /\ upload.Watermark /\ upload.WatermarkText = "X" /\ upload.WatermarkPosition = ""
    /\ upload.Bucket = "" /\ upload.Key = ""
    /\ Len(req.form) = 5
    /\ req.form[1].data = <<0, 1>>
    /\ req.form[3].value = "80"
    /\ req.query = <<(<<"allowedTypes", "image/png">>), (<<"allowedTypes", "image/jpeg">>)>>

(***************************************************************************)
(* C14.  For UploadFile of a local file with a progress observer: every    *)
(* observer call has total equal to the file size; uploaded never          *)
(* decreases from call to call and never exceeds total; once the file has  *)
(* been copied the observer has been called at least once and its last     *)
(* call had uploaded = total = file size.                                  *)
(***************************************************************************)
C14_FileProgress ==
    (op = "UploadFile" /\ upload.OnProgress /\ src.state = "ok") =>
        /\ \A k \in 1..Len(observed) :
              /\ observed[k][2] = Len(src.data)
              /\ observed[k][1] <= observed[k][2]
              /\ k > 1 => observed[k - 1][1] <= observed[k][1]
        /\ pc \in {"loop", "sleep", "after", "done"} =>
              /\ Len(observed) >= 1
              /\ observed[Len(observed)] = <<Len(src.data), Len(src.data)>>

\* A file of two bytes read one byte at a time and uploaded: the observer
\* saw 1/2, 2/2 and, on the read that hit the end of the file, 2/2 again.
C14_Witness ==
    /\ pc = "done"
    /\ op = "UploadFile"
    /\ upload.OnProgress
    /\ result.kind = "ok"
    /\ observed = <<(<<1, 2>>), (<<2, 2>>), (<<2, 2>>)>>

(***************************************************************************)
(* Vocabulary of the batch properties.                                     *)
(***************************************************************************)
\* An UploadFile of the batch is in progress or has just returned.
InUpload == pc \in {"open", "copy", "loop", "sleep", "after", "done"}

LastOf(q) == q[Len(q)]

(***************************************************************************)
(* C15.  BatchUpload always returns a nil error and a result with          *)
(* Total = len(Files) and len(Success) + len(Failed) = Total; a file whose *)
(* upload fails is recorded in Failed as (its path, the error's message),  *)
(* and every later file is still uploaded.                                 *)
(***************************************************************************)
C15_BatchNeverFails ==
    [][/\ (batch # None /\ pc = "done" /\ result.kind \notin {"ok", "panic"} /\ pc' = "batch") =>
            /\ batch'.Success = batch.Success
            /\ Len(batch'.Failed) = Len(batch.Failed) + 1
            /\ LastOf(batch'.Failed).File = batch.req.Files[batch.i + 1]
            /\ LastOf(batch'.Failed).Error =
                 (IF result.kind = "api"
                  THEN [text |-> "ling storage api error", code |-> result.StatusCode,
                        detail |-> result.Message]
                  ELSE [text |-> result.Message, code |-> 0, detail |-> ""])
            /\ batch'.i = batch.i + 1
       /\ pc' = "batchdone" =>
            /\ result' = Ok("")
            /\ batch'.i = Len(batch'.req.Files)
            /\ batch'.Total = Len(batch'.req.Files)
            /\ Len(batch'.Success) + Len(batch'.Failed) = batch'.Total]_vars

(***************************************************************************)
(* C16.  With a batch observer set, BatchUpload of n files calls it        *)
(* exactly n+1 times whatever number of uploads fail: call k (0 <= k < n)  *)
(* is (k, n, Files[k]) and precedes the upload of Files[k], the last call  *)
(* is (n, n, "") and follows the last upload; completed never exceeds      *)
(* total.                                                                  *)
(***************************************************************************)
C16_BatchObserver ==
    (batch # None /\ batch.req.OnProgress) =>
        LET n == Len(batch.req.Files)
            calls == batch.calls
        IN  /\ \A k \in 1..Len(calls) :
                  /\ calls[k][1] <= calls[k][2]
                  /\ k <= n => calls[k] = <<k - 1, n, batch.req.Files[k]>>
                  /\ k = n + 1 => calls[k] = <<n, n, <<>> >>
            /\ Len(calls) <= n + 1
            /\ InUpload => Len(calls) = batch.i + 1
            /\ pc = "batch" => Len(calls) = batch.i
            /\ pc = "batchdone" => Len(calls) = n + 1

(***************************************************************************)
(* C17.  BatchUpload processes Files one at a time in list order: while    *)
(* the upload of Files[i] is in progress, retries and waits included,      *)
(* every earlier file has its entry in Success or Failed, every request    *)
(* issued is for Files[i], and no later file has been touched; the entries *)
(* of Success and of Failed are in the order of their files.               *)
(***************************************************************************)
C17_OneAtATime ==
    batch # None =>
        LET files == batch.req.Files
            done == {batch.Success[k].of : k \in 1..Len(batch.Success)}
                        \cup {batch.Failed[k].of : k \in 1..Len(batch.Failed)}
        IN  /\ batch.i <= Len(files)
            /\ done = 0..(batch.i - 1)
            /\ Len(batch.Success) + Len(batch.Failed) = batch.i
            /\ \A k \in 2..Len(batch.Success) : batch.Success[k - 1].of < batch.Success[k].of
            /\ \A k \in 2..Len(batch.Failed) : batch.Failed[k - 1].of < batch.Failed[k].of
            /\ InUpload =>
                  /\ batch.i < Len(files)
                  /\ upload.FilePath = files[batch.i + 1]
                  /\ \A w \in wire : w.form[1].filename = files[batch.i + 1][2]
            /\ ~InUpload => (attempts = 0 /\ wire = {} /\ waits = <<>>)

\* A batch of two files has ended: the first failed after a retry and a
\* wait, the second was accepted on its first attempt.
C17_Witness ==
    /\ pc = "batchdone"
    /\ batch.Total = 2
    /\ batch.attempts = 3
    /\ Len(batch.Failed) = 1 /\ batch.Failed[1].of = 0
    /\ Len(batch.Success) = 1 /\ batch.Success[1].of = 1

(***************************************************************************)
(* C18.  In BatchUpload each file is uploaded with                         *)
(* key = KeyPrefix + "/" + basename(path) when KeyPrefix is non-empty and  *)
(* with no key field when KeyPrefix is empty; bucket and the compression,  *)
(* watermark and allowed-type options of the batch request reach every     *)
(* file's upload unchanged.                                                *)
(***************************************************************************)
C18_BatchKey ==
    (batch # None /\ upload # None) =>
        LET b == batch.req
            path == b.Files[batch.i + 1]
            key == IF b.KeyPrefix = "" THEN "" ELSE b.KeyPrefix \o "/" \o path[Len(path)]
        IN  /\ upload.Key = key
            /\ upload.Bucket = b.Bucket
            /\ upload.AllowedTypes = b.AllowedTypes
            /\ upload.Compress = b.Compress /\ upload.Quality = b.Quality
            /\ upload.Watermark = b.Watermark
            /\ upload.WatermarkText = b.WatermarkText
            /\ upload.WatermarkPosition = b.WatermarkPosition
            /\ req # None =>
                  /\ b.KeyPrefix # "" => HasField(req.form, "key", key)
                  /\ b.KeyPrefix = "" => \A k \in 1..Len(req.form) : req.form[k].name # "key"
                  /\ b.Bucket # "" => HasField(req.form, "bucket", b.Bucket)
                  /\ b.Compress => HasField(req.form, "compress", "true")
                  /\ b.Watermark => HasField(req.form, "watermark", "true")
                  /\ Len(req.query) = Len(b.AllowedTypes)

\* The second file of a batch with prefix "batch", b/x.txt, has been sent
\* under the key batch/x.txt with the options of the batch.
C18_Witness ==
    /\ batch # None
    /\ batch.i = 1
    /\ batch.req.KeyPrefix = "batch"
    /\ Len(batch.req.Files) = 2
    /\ batch.req.Files[2] = <<"b", "x.txt">>
    /\ batch.req.Compress
    /\ wire # {}
    /\ HasField(req.form, "key", "batch/x.txt")
    /\ HasField(req.form, "bucket", "images")
    /\ HasField(req.form, "quality", "80")

(***************************************************************************)
(* C19.  When UploadFile cannot open or stat its source file it returns an *)
(* error at once: no HTTP request is issued, no retry or backoff wait      *)
(* occurs, and the progress observer is never called.                      *)
(***************************************************************************)
C19_OpenFailureIsImmediate ==
    (op = "UploadFile" /\ src.state # "ok") =>
        /\ pc \in {"open", "done"}
        /\ pc = "done" => result \in {OpenError, StatError}
        /\ attempts = 0
        /\ served = 0
        /\ wire = {}
        /\ req = None
        /\ waits = <<>>
        /\ observed = <<>>

\* UploadFile with an observer set has returned "failed to open file".
C19_Witness ==
    /\ pc = "done"
    /\ op = "UploadFile"
    /\ upload.OnProgress
    /\ src.state = "noopen"
    /\ result = OpenError
    /\ observed = <<>>

(***************************************************************************)
(* C20.  Calls running concurrently on one Client do not interfere: a step *)
(* of another call changes nothing that this call reads, so whether this   *)
(* call's next attempt reaches the server, and with it the call's attempt  *)
(* count and result, is what it would be had the call run alone.           *)
(***************************************************************************)
C20_NoInterference ==
    [][(other' # other /\ pc \in {"loop", "sleep"}) =>
          /\ ClientConfig' = ClientConfig
          /\ req' = req /\ resp' = resp /\ lastErr' = lastErr
          /\ bodyLeft' = bodyLeft /\ pr' = pr /\ buf' = buf
          /\ CanSend' <=> CanSend]_vars

(***************************************************************************)
(* Vocabulary of the reader properties.                                    *)
(***************************************************************************)
\* The copy into the multipart body is over.
Copied == pc \in {"loop", "sleep", "after", "done"}

\* The bytes of a reader from its position to its end.
Rest(s) == SubSeq(s.data, s.pos + 1, Len(s.data))

(***************************************************************************)
(* C21.  UploadFromReader with a progress observer on a stream whose       *)
(* length cannot be determined (Size <= 0 and the reader is not seekable,  *)
(* or seeking yields 0) never calls the observer, and the file part of the *)
(* request holds every byte the stream had left.                           *)
(***************************************************************************)
C21_UnknownLength ==
    (/\ op = "UploadFromReader"
     /\ args.OnProgress
     /\ args.Size <= 0
     /\ ~args.seekable \/ Len(args.Reader.data) = 0) =>
        /\ observed = <<>>
        /\ Copied => req.form[1].data = Rest(args.Reader)
        /\ \A w \in wire : w.form[1].data = Rest(args.Reader)

\* Two bytes from a reader that cannot seek, Size 0, observer set: accepted
\* by the server, both bytes in the file part, the observer never called.
C21_Witness ==
    /\ pc = "done"
    /\ op = "UploadFromReader"
    /\ args.OnProgress /\ args.Size = 0 /\ ~args.seekable
    /\ args.Reader.data = <<0, 1>> /\ args.Reader.pos = 0
    /\ result.kind = "ok"
    /\ req.form[1].data = <<0, 1>>
    /\ observed = <<>>

(***************************************************************************)
(* C29.  UploadFromReader with Size <= 0 and a seekable reader reads on    *)
(* from the position the reader had on entry, and the total it inferred    *)
(* equals the number of bytes uploaded, so that the observer's last call   *)
(* has uploaded == total, for every starting position.                     *)
(***************************************************************************)
C29_InferredTotal ==
    (/\ op = "UploadFromReader"
     /\ args.Size <= 0
     /\ args.seekable) =>
        /\ pc = "copy" => src.pos = args.Reader.pos + Len(buf[1].data)
        /\ Copied => req.form[1].data = Rest(args.Reader)
        /\ (Copied /\ pr # None) =>
              /\ pr.total = Len(req.form[1].data)
              /\ LastOf(observed)[1] = LastOf(observed)[2]

(***************************************************************************)
(* C26.  For every RetryCount, negative ones included, a call issues at    *)
(* least one HTTP attempt and never uses a response it does not have: it   *)
(* returns a result or an error and does not crash.                        *)
(***************************************************************************)
C26_AtLeastOneAttempt ==
    pc = "done" =>
        /\ attempts >= 1
        /\ result.kind # "panic"
        /\ (result.kind \in {"ok", "api"} /\ op # "none") => resp # None

(***************************************************************************)
(* C27.  By the time a call returns, the body of every HTTP response it    *)
(* received has been closed, the responses with a status >= 500 that a     *)
(* retry discarded included.                                               *)
(***************************************************************************)
C27_BodiesClosed == pc = "done" => unclosed = 0

(***************************************************************************)
(* C25.  Every attempt of a retried call transmits the same complete       *)
(* request body as the first one: the multipart body of an upload and the  *)
(* JSON body of CreateBucket, SetBucketPrivate, CopyFile and MoveFile.     *)
(***************************************************************************)
C25_SameBodyEveryAttempt ==
    [][(pc = "loop" /\ attempts' = attempts + 1 /\ op \in BodyOps) =>
          /\ req' = req
          /\ CanSend]_vars

(***************************************************************************)
(* C24.  Every call eventually returns, provided each attempt returns: it  *)
(* makes at most RetryCount + 1 attempts and RetryCount waits, and then    *)
(* hands a result or an error to its caller.                               *)
(***************************************************************************)
C24_Terminates ==
    /\ pc # "idle" => attempts <= ClientConfig.RetryCount + 1
    /\ attempts >= 1 => Len(waits) <= ClientConfig.RetryCount
    /\ pc = "done" => result.kind \notin {"none", "panic"}

C30_DistinctKeys ==
    (/\ batch # None
     /\ batch.req.KeyPrefix # ""
     /\ upload # None
     /\ served >= 1) =>
        \A k \in 1..Len(batch.Success) :
            LET earlier == batch.req.Files[batch.Success[k].of + 1]
            IN  earlier # upload.FilePath =>
                    ~HasField(req.form, "key", BatchKey(batch.req, earlier))

(***************************************************************************)
(* C22.  GetFileURL sends the query parameter expires, set to the default  *)
(* textual form of the duration (one hour is 1h0m0s), for every positive   *)
(* expires, and sends no expires parameter when expires is zero or         *)
(* negative.                                                               *)
(***************************************************************************)
C22_ExpiresParameter ==
    (op = "GetFileURL" /\ req # None) =>
        /\ args.expires <= 0 => req.query = <<>>
        /\ args.expires > 0 =>
              req.query = << <<"expires", CASE args.expires = 1 -> "1s"
                                            [] args.expires = 90 -> "1m30s"
                                            [] args.expires = 3600 -> "1h0m0s"
                                            [] args.expires = 5400 -> "1h30m0s">> >>
        /\ \A w \in wire : w.query = req.query

\* GetFileURL with one hour: the request that reached the server and was
\* accepted carries expires=1h0m0s.
C22_Witness ==
    /\ pc = "done"
    /\ op = "GetFileURL"
    /\ args.expires = 3600
    /\ result.kind = "ok"
    /\ \E w \in wire : w.query = << <<"expires", "1h0m0s">> >>

(***************************************************************************)
(* C23.  Each operation sends its request with exactly the method and the  *)
(* path of the endpoint table, on the base URL with its trailing slashes   *)
(* stripped, for every bucket and key passed in.                           *)
(***************************************************************************)
C23_MethodAndPath ==
    (req # None /\ op # "none") =>
        /\ req.host = "http://host"
        /\ req.rawQuery = ""
        /\ <<req.method, req.path>> =
             CASE op \in UploadOps -> <<"POST", "/api/public/upload">>
               [] op = "Ping" -> <<"HEAD", "/">>
               [] op = "DeleteFile" ->
                    <<"DELETE", "/api/public/files/" \o Join(args.bucket) \o "/" \o Join(args.key)>>
               [] op = "GetFileURL" ->
                    <<"GET", "/api/public/files/" \o Join(args.bucket) \o "/" \o Join(args.key)
                                \o "/url">>
               [] op = "GetFileInfo" ->
                    <<"GET", "/api/public/files/" \o Join(args.bucket) \o "/" \o Join(args.key)
                                \o "/info">>
               [] op = "ListFiles" ->
                    <<"GET", "/api/public/buckets/" \o Join(args.bucket) \o "/files">>
               [] op = "ListBuckets" -> <<"GET", "/api/public/buckets">>
               [] op = "CreateBucket" -> <<"POST", "/api/public/buckets">>
               [] op = "DeleteBucket" -> <<"DELETE", "/api/public/buckets/" \o Join(args.bucket)>>
               [] op = "GetBucketDomains" ->
                    <<"GET", "/api/public/buckets/" \o Join(args.bucket) \o "/domains">>
               [] op = "SetBucketPrivate" ->
                    <<"PUT", "/api/public/buckets/" \o Join(args.bucket) \o "/private">>
               [] op = "CopyFile" ->
                    <<"POST", "/api/public/files/" \o Join(args.bucket) \o "/" \o Join(args.key)
                                \o "/copy">>
               [] op = "MoveFile" ->
                    <<"POST", "/api/public/files/" \o Join(args.bucket) \o "/" \o Join(args.key)
                                \o "/move">>

====
